---- MODULE Spec2Model ----
(***************************************************************************)
(* FilmFinderBot (src/main.py): the navigation token codec, the pagination *)
(* renderer, the genre cache and the favorites store, as a state machine.  *)
(*                                                                         *)
(* A Python str is a sequence of one-character strings.  A handler is a    *)
(* coroutine: it is modelled by its position (pc) and its locals, and one  *)
(* action is the code it runs between two awaits that other handlers can   *)
(* observe.                                                                *)
(***************************************************************************)
EXTENDS Integers, Sequences, FiniteSets, Bags, TLC

\* ------------------------------------------------------------------ bounds
\* Longest payload / raw callback string that is enumerated character by
\* character (longer ones are built with Pad below).
MaxLen == 2
\* Largest page number a caller passes to the encoder.
MaxPage == 12
\* Largest page a browse session is followed to.
MaxNavPage == 3

\* ------------------------------------------------------ program constants
\* str(payload)[:40]
CB_PAYLOAD_MAX == 40
\* movies_to_keyboard: results[:10]
KB_MAX == 10
\* len(results) == 20
FULL_PAGE == 20

\* --------------------------------------------------------------- strings
\* the character c, n times
Pad(c, n) == [i \in 1..n |-> c]

DigitSeq == <<"0", "1", "2", "3", "4", "5", "6", "7", "8", "9">>
Digits == {DigitSeq[i] : i \in 1..10}
DigitVal(c) == (CHOOSE i \in 1..10 : DigitSeq[i] = c) - 1

Min(a, b) == IF a <= b THEN a ELSE b
Max(a, b) == IF a >= b THEN a ELSE b

\* s[:n] for n >= 0
Prefix(s, n) == SubSeq(s, 1, Min(Len(s), n))
\* s[n:] (0-based n)
Suffix(s, n) == SubSeq(s, n + 1, Len(s))

\* str(n) for an int n
RECURSIVE NatToStr(_)
NatToStr(n) ==
    IF n < 10 THEN <<DigitSeq[n + 1]>>
    ELSE NatToStr(n \div 10) \o <<DigitSeq[(n % 10) + 1]>>

IntToStr(n) == IF n < 0 THEN <<"-">> \o NatToStr(-n) ELSE NatToStr(n)

\* str.strip() (of blanks)
RECURSIVE LStrip(_)
LStrip(s) == IF s # <<>> /\ s[1] = " " THEN LStrip(Tail(s)) ELSE s
RECURSIVE RStrip(_)
RStrip(s) ==
    IF s # <<>> /\ s[Len(s)] = " " THEN RStrip(SubSeq(s, 1, Len(s) - 1)) ELSE s
Strip(s) == RStrip(LStrip(s))

RECURSIVE DigitsToNat(_, _)
DigitsToNat(s, acc) ==
    IF s = <<>> THEN acc
    ELSE IF s[1] = "_" THEN DigitsToNat(Tail(s), acc)
    ELSE DigitsToNat(Tail(s), 10 * acc + DigitVal(s[1]))

\* int(s): blanks around, an optional sign, then digits (single underscores
\* between digits allowed).  [ok |-> FALSE] is ValueError.
IntBody(s) ==
    LET t == Strip(s)
    IN  IF t # <<>> /\ t[1] \in {"+", "-"} THEN Tail(t) ELSE t

IntBodyOk(b) ==
    /\ b # <<>>
    /\ \A i \in 1..Len(b) : b[i] \in Digits \cup {"_"}
    /\ b[1] # "_"
    /\ b[Len(b)] # "_"
    /\ \A i \in 1..(Len(b) - 1) : ~(b[i] = "_" /\ b[i + 1] = "_")

StrToInt(s) ==
    LET t == Strip(s)
        b == IntBody(s)
    IN  IF IntBodyOk(b)
        THEN [ok |-> TRUE,
              val |-> IF t[1] = "-" THEN 0 - DigitsToNat(b, 0) ELSE DigitsToNat(b, 0)]
        ELSE [ok |-> FALSE, val |-> 0]

\* index of the first ":" of s, 0 when there is none
FirstColon(s) ==
    IF \E i \in 1..Len(s) : s[i] = ":"
    THEN CHOOSE i \in 1..Len(s) : s[i] = ":" /\ \A j \in 1..(i - 1) : s[j] # ":"
    ELSE 0

\* s.split(":", maxsplit)
RECURSIVE Split(_, _)
Split(s, maxsplit) ==
    IF maxsplit = 0 \/ FirstColon(s) = 0 THEN <<s>>
    ELSE <<SubSeq(s, 1, FirstColon(s) - 1)>>
            \o Split(Suffix(s, FirstColon(s)), maxsplit - 1)

\* ------------------------------------------------- navigation token codec
PG == <<"p", "g">>
KIND_S == <<"s">>
KIND_G == <<"g">>
KIND_C == <<"c">>
Kinds == {KIND_S, KIND_G, KIND_C}

\* (faulty variant) the payload goes in whole
page_nav_cb_NoCut(kind, page, payload) ==
    PG \o <<":">> \o kind \o <<":">> \o IntToStr(page) \o <<":">> \o payload

\* (faulty variant) the payload is cut one character early
page_nav_cb_Cut39(kind, page, payload) ==
    PG \o <<":">> \o kind \o <<":">> \o IntToStr(page) \o <<":">>
       \o Prefix(payload, CB_PAYLOAD_MAX - 1)

\* page_nav_cb(kind, page, payload): f"pg:{kind}:{page}:{payload[:40]}"
page_nav_cb(kind, page, payload) ==
    PG \o <<":">> \o kind \o <<":">> \o IntToStr(page) \o <<":">>
       \o Prefix(payload, CB_PAYLOAD_MAX)

\* parse_page_cb(data): _, kind, page, payload = data.split(":", 3), then
\* int(page).  [ok |-> FALSE] is the ValueError of the unpacking or of int().
ParseFail == [ok |-> FALSE, kind |-> <<>>, page |-> 0, payload |-> <<>>]
parse_page_cb(data) ==
    LET f == Split(data, 3)
    IN  IF Len(f) # 4 THEN ParseFail
        ELSE IF ~StrToInt(f[3]).ok THEN ParseFail
        ELSE [ok |-> TRUE, kind |-> f[2], page |-> StrToInt(f[3]).val,
              payload |-> f[4]]

\* ------------------------------------------------------------- variables
VARIABLES
    favorites,     \* rows of table favorites (committed), in rowid order
    dblock,        \* handler whose connection holds the SQLite write lock, 0 = none
    genres_cache,  \* _genres_cache: genre id -> name
    h,             \* per handler slot: the running coroutine (handler, pc, locals)
    cx             \* a direct call of the token codec: arguments, token, result

vars == <<favorites, dblock, genres_cache, h, cx>>

\* ------------------------------------------------------- handler slots
\* Handler invocations that can be in flight at once (asyncio tasks).
Procs == {1, 2}

\* Locals of a handler coroutine.
NoTitle == [tag |-> "", arg |-> <<>>]
NoReq == [endpoint |-> "", arg |-> <<>>, page |-> 0]
NoData == [results |-> <<>>, total_pages |-> 0]
NoLoc == [movie_id |-> 0, title |-> "", year |-> "", ok |-> FALSE, n |-> 0,
          rows |-> <<>>, exc |-> "",
          kind |-> <<>>, page |-> 0, payload |-> <<>>, gid |-> 0,
          title_line |-> NoTitle, site |-> "", req |-> NoReq, data |-> NoData]

\* No handler runs in the slot.
IdleSlot == [handler |-> "none", pc |-> "idle", user |-> 0, data |-> <<>>,
             loc |-> NoLoc, out |-> <<>>]

\* A message the user sees: reply_text / edit_message_text / send_message /
\* q.answer(text).  The texts of src/main.py are named in ASCII here.
Msg(text, buttons) == [text |-> text, buttons |-> buttons]

MSG_NO_MOVIE_DATA == "could not get the movie data"     \* line 403
MSG_FAV_ADDED == "added to favorites: "                 \* line 409
MSG_FAV_ALREADY == "already in favorites"               \* line 411
MSG_FAV_DELETED == "deleted, open /favorites again"     \* line 427
MSG_FAV_NOT_FOUND == "not found in favorites"           \* line 429
MSG_FAV_EMPTY == "favorites are empty"                  \* line 434
MSG_FAV_HEADER == "your favorites:"                     \* line 442

\* The slot's coroutine ends with an exception nobody catches: the library logs
\* it and the user gets nothing more.  The frame is gone.
Raised(name, exc) ==
    [IdleSlot EXCEPT !.handler = name, !.pc = "raised", !.loc.exc = exc]

\* The slot's coroutine returns: its frame is gone, what stays is what it sent
\* and what its store call returned.
Done(name, ret, msg) ==
    [IdleSlot EXCEPT !.handler = name, !.pc = "done", !.loc.ok = ret.ok,
                     !.loc.n = ret.n, !.loc.rows = ret.rows, !.out = <<msg>>]
NoRet == [ok |-> FALSE, n |-> 0, rows |-> <<>>]

\* ------------------------------------------------------- favorites store
Users == {1, 2}
Movies == {41, 42}

\* What the remote catalog may answer to details(movie_id) over time: a title
\* and the first four characters of the release date, or the placeholder
\* (line 406).
Catalog(m) ==
    IF m = 41 THEN {[title |-> "Alien", year |-> "1979"],
                    [title |-> "Brazil", year |-> "-"]}
    ELSE {[title |-> "Alien", year |-> "1979"]}
\* ORDER BY title
TitleRank(t) == IF t = "Alien" THEN 1 ELSE IF t = "Brazil" THEN 2 ELSE 3

Row(u, m, t, y) == [user_id |-> u, movie_id |-> m, title |-> t, year |-> y]

\* rows of the table with this primary key
RowsWithKey(table, u, m) ==
    {r \in BagToSet(table) : r.user_id = u /\ r.movie_id = m}
CountKey(table, u, m) ==
    LET rs == RowsWithKey(table, u, m)
    IN  BagCardinality([r \in rs |-> table[r]])

\* (faulty variant) a table without the primary key: no row is ever rejected
PrimaryKeyViolated_NoKey(table, u, m) == FALSE

\* INSERT INTO favorites ... under PRIMARY KEY (user_id, movie_id):
\* sqlite rejects the row (IntegrityError) when the key is present.
PrimaryKeyViolated(table, u, m) == RowsWithKey(table, u, m) # {}
InsertRow(table, r) == table (+) SetToBag({r})
\* (faulty variant) DELETE FROM favorites WHERE user_id = ?
DeleteRows_WholeUser(table, u, m) ==
    LET keep == {r \in BagToSet(table) : r.user_id # u}
    IN  [r \in keep |-> table[r]]

\* (faulty variant) DELETE FROM favorites WHERE movie_id = ?
DeleteRows_AnyUser(table, u, m) ==
    LET keep == {r \in BagToSet(table) : r.movie_id # m}
    IN  [r \in keep |-> table[r]]

\* DELETE FROM favorites WHERE user_id = ? AND movie_id = ?
DeleteRows(table, u, m) ==
    LET keep == {r \in BagToSet(table) : ~(r.user_id = u /\ r.movie_id = m)}
    IN  [r \in keep |-> table[r]]

\* callback data of the favorites buttons (lines 188, 440)
FAV_ADD == <<"f", "a", "v", "_", "a", "d", "d">>
FAV_DEL == <<"f", "a", "v", "_", "d", "e", "l">>
FavAddData == {FAV_ADD \o <<":">> \o IntToStr(m) : m \in Movies}
                 \cup {FAV_ADD \o <<":">> \o <<"x">>}
FavDelData == {FAV_DEL \o <<":">> \o IntToStr(m) : m \in Movies}

\* movie_id = int(q.data.split(":", 1)[1])
MovieIdOf(data) == StrToInt(Split(data, 1)[2])

\* A button press or command arrives and the library starts its handler in a
\* free slot.
SlotFree(p) == h[p].pc = "idle"

\* The task of a handler that returned or raised ends; its slot is free again.
TaskEnds(p) ==
    /\ h[p].pc \in {"done", "raised"}
    /\ h' = [h EXCEPT ![p] = IdleSlot]
    /\ UNCHANGED <<favorites, dblock, genres_cache, cx>>

\* on_fav_add, lines 397-406: q.answer(), the movie id, then tmdb_details
\* (lines 88-96) answers: no such id, an entry, or the request fails (timeout,
\* transport) and httpx raises, which nothing catches.  Nothing shared is
\* touched up to here, so this is one step.
OnFavAdd(p) ==
    /\ SlotFree(p)
    /\ \E u \in Users, d \in FavAddData :
          LET new == [IdleSlot EXCEPT !.handler = "on_fav_add", !.user = u, !.data = d,
                                      !.loc.movie_id = MovieIdOf(d).val]
          IN  \/ /\ ~MovieIdOf(d).ok
                 /\ h' = [h EXCEPT ![p] = Raised("on_fav_add", "ValueError")]
              \/ /\ MovieIdOf(d).ok
                 /\ h' = [h EXCEPT ![p] = Raised("on_fav_add", "httpx.TransportError")]
              \/ /\ MovieIdOf(d).ok
                 /\ h' = [h EXCEPT ![p] =
                            Done("on_fav_add", NoRet, Msg(<<MSG_NO_MOVIE_DATA>>, <<>>))]
              \/ /\ MovieIdOf(d).ok
                 /\ \E e \in Catalog(MovieIdOf(d).val) :
                       h' = [h EXCEPT ![p] =
                               [new EXCEPT !.pc = "insert", !.loc.title = e.title,
                                           !.loc.year = e.year]]
    /\ UNCHANGED <<favorites, dblock, genres_cache, cx>>

\* on_fav_add, lines 410-411: fav_add returned False
Refused(slot) ==
    [slot EXCEPT !.pc = "done", !.loc.ok = FALSE,
                 !.out = <<Msg(<<MSG_FAV_ALREADY>>, <<>>)>>]

\* (faulty variant) INSERT OR REPLACE: a present row gives way to the new one
FavAddInsert_Replace(p) ==
    /\ h[p].handler = "on_fav_add" /\ h[p].pc = "insert"
    /\ dblock = 0
    /\ IF RowsWithKey(favorites, h[p].user, h[p].loc.movie_id) # {}
       THEN /\ dblock' = 0
            /\ favorites' =
                  InsertRow(DeleteRows(favorites, h[p].user, h[p].loc.movie_id),
                            Row(h[p].user, h[p].loc.movie_id, h[p].loc.title,
                                h[p].loc.year))
            /\ h' = [h EXCEPT ![p] = Refused(h[p])]
       ELSE /\ dblock' = p
            /\ favorites' = favorites
            /\ h' = [h EXCEPT ![p].pc = "commit"]
    /\ UNCHANGED <<genres_cache, cx>>

\* (faulty variant) the uniqueness is pre-checked by the caller against the committed
\* rows instead of being enforced by the INSERT under the write lock
FavAddInsert_PreCheck(p) ==
    /\ h[p].handler = "on_fav_add" /\ h[p].pc = "insert"
    /\ IF PrimaryKeyViolated(favorites, h[p].user, h[p].loc.movie_id)
       THEN h' = [h EXCEPT ![p] =
                    Done("on_fav_add", NoRet, Msg(<<MSG_FAV_ALREADY>>, <<>>))]
       ELSE h' = [h EXCEPT ![p].pc = "commit"]
    /\ UNCHANGED <<favorites, dblock, genres_cache, cx>>

\* fav_add, lines 263-268 and 271-272, and on_fav_add, lines 410-411: the
\* connection runs the INSERT.  It waits (busy timeout) while another
\* connection holds the write lock and then takes it.  On a present key the
\* statement raises IntegrityError, fav_add returns False and closing the
\* connection frees the lock again; else the row is pending under the lock.
\* The handler that was refused is shown with what it asked to store.
FavAddInsert(p) ==
    /\ h[p].handler = "on_fav_add" /\ h[p].pc = "insert"
    /\ dblock = 0
    /\ IF PrimaryKeyViolated(favorites, h[p].user, h[p].loc.movie_id)
       THEN /\ dblock' = 0
            /\ h' = [h EXCEPT ![p] = Refused(h[p])]
       ELSE /\ dblock' = p
            /\ h' = [h EXCEPT ![p].pc = "commit"]
    /\ UNCHANGED <<favorites, genres_cache, cx>>

\* fav_add, lines 269-270, then on_fav_add lines 408-409: commit, return True,
\* the connection closes, the reply is sent.
FavAddCommit(p) ==
    /\ h[p].handler = "on_fav_add" /\ h[p].pc = "commit"
    /\ favorites' = InsertRow(favorites,
                        Row(h[p].user, h[p].loc.movie_id, h[p].loc.title, h[p].loc.year))
    /\ dblock' = 0
    /\ h' = [h EXCEPT ![p] =
               Done("on_fav_add", [NoRet EXCEPT !.ok = TRUE],
                    Msg(<<MSG_FAV_ADDED, h[p].loc.title>>, <<>>))]
    /\ UNCHANGED <<genres_cache, cx>>

\* on_fav_del, lines 421-425, and fav_remove, lines 284-288: q.answer(), the
\* movie id, then the DELETE runs under the write lock; rowcount is the number
\* of rows it matched.
OnFavDel(p) ==
    /\ SlotFree(p)
    /\ dblock = 0
    /\ \E u \in Users, d \in FavDelData :
          /\ h' = [h EXCEPT ![p] =
                     [IdleSlot EXCEPT !.handler = "on_fav_del", !.user = u, !.data = d,
                                      !.pc = "commit",
                                      !.loc.movie_id = MovieIdOf(d).val,
                                      !.loc.n = CountKey(favorites, u, MovieIdOf(d).val)]]
    /\ dblock' = p
    /\ UNCHANGED <<favorites, genres_cache, cx>>

\* fav_remove, lines 289-290, then on_fav_del lines 426-429: commit, return
\* cur.rowcount, and tell the user.
FavDelCommit(p) ==
    /\ h[p].handler = "on_fav_del" /\ h[p].pc = "commit"
    /\ favorites' = DeleteRows(favorites, h[p].user, h[p].loc.movie_id)
    /\ dblock' = 0
    /\ h' = [h EXCEPT ![p] =
               Done("on_fav_del", [NoRet EXCEPT !.n = h[p].loc.n],
                    IF h[p].loc.n # 0 THEN Msg(<<MSG_FAV_DELETED>>, <<>>)
                    ELSE Msg(<<MSG_FAV_NOT_FOUND>>, <<>>))]
    /\ UNCHANGED <<genres_cache, cx>>

\* fav_list, lines 274-281: SELECT movie_id, title ... WHERE user_id = ?
\* ORDER BY title.  Every order of the user's rows that ascends by title is a
\* possible answer (rows with equal titles come in no fixed order).
UserRows(table, u) == {r \in BagToSet(table) : r.user_id = u}
UserRowCount(table, u) ==
    BagCardinality([r \in UserRows(table, u) |-> table[r]])
fav_list(table, u) ==
    {[i \in 1..UserRowCount(table, u) |-> <<q[i].movie_id, q[i].title>>] :
        q \in {q \in [1..UserRowCount(table, u) -> UserRows(table, u)] :
                 /\ \A r \in UserRows(table, u) :
                       Cardinality({i \in DOMAIN q : q[i] = r}) = table[r]
                 /\ \A i, j \in DOMAIN q :
                       i < j => TitleRank(q[i].title) <= TitleRank(q[j].title)}}

\* send_favorites: rows[:20]
FAV_BUTTONS_MAX == 20
DET == <<"d", "e", "t">>

\* send_favorites, lines 436-441: one row of two buttons per favorite
FavButtons(rows) ==
    [i \in 1..Min(Len(rows), FAV_BUTTONS_MAX) |->
        <<[label |-> rows[i][2], data |-> DET \o <<":">> \o IntToStr(rows[i][1])],
          [label |-> "x", data |-> FAV_DEL \o <<":">> \o IntToStr(rows[i][1])]>>]

\* send_favorites(user_id, ...), lines 431-442: the SELECT reads the committed
\* rows, then the list (or the "empty" text) is sent to the user's chat.
send_favorites(p, u) ==
    /\ \E rows \in fav_list(favorites, u) :
          h' = [h EXCEPT ![p] =
                  [Done("on_fav_list", [NoRet EXCEPT !.rows = rows],
                        IF rows = <<>> THEN Msg(<<MSG_FAV_EMPTY>>, <<>>)
                        ELSE Msg(<<MSG_FAV_HEADER>>, FavButtons(rows)))
                     EXCEPT !.user = u]]
    /\ UNCHANGED <<favorites, dblock, genres_cache, cx>>

\* cmd_favorites / on_fav_list, lines 413-419
OnFavList(p) ==
    /\ SlotFree(p)
    /\ \E u \in Users : send_favorites(p, u)

\* ------------------------------------------------------------ genre cache
\* _genres_cache = {} (line 44)
EmptyCache == [g \in {} |-> <<>>]
\* the remote genre listing, as {g["id"]: g["name"]} (line 56)
GenreListing ==
    [g \in {12, 28} |-> IF g = 28 THEN <<"A", "c", "t", "i", "o", "n">>
                        ELSE <<"A", "d", "v">>]

\* (faulty variant) the cache is never consulted
CacheWarm_Never(cache) == FALSE

\* if _genres_cache: (line 49)
CacheWarm(cache) == cache # EmptyCache

\* ------------------------------------------------------ pagination renderer
MSG_UNKNOWN_REQUEST == "unknown request"                \* line 140
MSG_NOTHING_FOUND == "nothing found"                    \* line 147
MSG_PAGE == "{title_line} (page {page} of {total_pages})"   \* line 162
MSG_TITLE == "{title_line}"                             \* lines 360, 368
MSG_UNKNOWN_PAGE_KIND == "unknown page kind"            \* line 391
MSG_GREETING == "hello, type a title or pick a button"  \* line 296
MSG_ENTER_TITLE == "enter the movie title"              \* line 306
MSG_PICK_GENRE == "pick a genre"                        \* line 317
MSG_PICK_COUNTRY == "pick a country"                    \* line 327
MSG_SEARCHING == "searching"                            \* line 331
MSG_FOUND_NOTHING_TRY == "found nothing, try another title"   \* line 335
MSG_RESULTS_FOR == "results for {text} (page 1 of {total_pages})"   \* line 344

Button(label, data) == [label |-> label, data |-> data]

\* (faulty variant) no cap: a row for every result
movies_to_keyboard_All(results) ==
    [i \in 1..Len(results) |->
        <<Button("details", DET \o <<":">> \o IntToStr(results[i].id))>>]

\* movies_to_keyboard, lines 114-120: one row with one detail button for each
\* of the first ten results (the label's title is left out).
movies_to_keyboard(results) ==
    [i \in 1..Min(Len(results), KB_MAX) |->
        <<Button("details", DET \o <<":">> \o IntToStr(results[i].id))>>]

\* total_pages = max(1, int(data.get("total_pages", 1))) (lines 144, 339)
TotalPages(data) == Max(1, data.total_pages)

\* (faulty variant) "next" only while the remote count says so
nav_row_TrustTotal(kind, page, payload, data) ==
    (IF page > 1
     THEN <<Button("prev", page_nav_cb(kind, page - 1, payload))>> ELSE <<>>)
    \o (IF page < TotalPages(data)
        THEN <<Button("next", page_nav_cb(kind, page + 1, payload))>> ELSE <<>>)

\* (faulty variant) the buttons keep the page they are on
nav_row_SamePage(kind, page, payload, data) ==
    (IF page > 1
     THEN <<Button("prev", page_nav_cb(kind, page, payload))>> ELSE <<>>)
    \o (IF page < TotalPages(data) \/ Len(data.results) = FULL_PAGE
        THEN <<Button("next", page_nav_cb(kind, page, payload))>> ELSE <<>>)

\* show_list_with_pagination, lines 152-158
nav_row(kind, page, payload, data) ==
    (IF page > 1
     THEN <<Button("prev", page_nav_cb(kind, page - 1, payload))>> ELSE <<>>)
    \o (IF page < TotalPages(data)
        THEN <<Button("next", page_nav_cb(kind, page + 1, payload))>>
        ELSE IF Len(data.results) = FULL_PAGE
        THEN <<Button("next", page_nav_cb(kind, page + 1, payload))>>
        ELSE <<>>)

\* show_list_with_pagination, lines 143-167: what is shown for the answer
\* `data` of the catalog.
RenderPage(kind, page, payload, title_line, data) ==
    IF data.results = <<>> THEN Msg(<<MSG_NOTHING_FOUND>>, <<>>)
    ELSE Msg(<<MSG_PAGE, title_line, page, TotalPages(data)>>,
             movies_to_keyboard(data.results)
                \o (IF nav_row(kind, page, payload, data) # <<>>
                    THEN <<nav_row(kind, page, payload, data)>> ELSE <<>>))

\* (faulty variant) the first page always gets a "next" button
RenderFirstPage_AlwaysNext(text, data) ==
    IF data.results = <<>> THEN Msg(<<MSG_FOUND_NOTHING_TRY>>, <<>>)
    ELSE Msg(<<MSG_RESULTS_FOR, text, 1, TotalPages(data)>>,
             movies_to_keyboard(data.results)
                \o <<<<Button("next", page_nav_cb(KIND_S, 2, text))>>>>)

\* text_router, lines 333-347: the first page of a search
RenderFirstPage(text, data) ==
    IF data.results = <<>> THEN Msg(<<MSG_FOUND_NOTHING_TRY>>, <<>>)
    ELSE Msg(<<MSG_RESULTS_FOR, text, 1, TotalPages(data)>>,
             movies_to_keyboard(data.results)
                \o (IF TotalPages(data) > 1 \/ Len(data.results) = FULL_PAGE
                    THEN <<<<Button("next", page_nav_cb(KIND_S, 2, text))>>>>
                    ELSE <<>>))

TitleLine(tag, arg) == [tag |-> tag, arg |-> arg]
Req(endpoint, arg, page) == [endpoint |-> endpoint, arg |-> arg, page |-> page]

\* show_list_with_pagination, lines 131-141, entered by the handler `slot`
\* (its name, user, data and what it has sent so far): the kind picks the
\* catalog request, whose answer the handler then awaits.
show_list_with_pagination(slot, kind, page, payload, title_line) ==
    LET call == [slot EXCEPT !.loc.kind = kind, !.loc.page = page,
                             !.loc.payload = payload, !.loc.title_line = title_line]
    IN  IF kind = KIND_S
        THEN [call EXCEPT !.pc = "fetch", !.loc.req = Req("search", payload, page)]
        ELSE IF kind = KIND_G
        THEN IF StrToInt(payload).ok
             THEN [call EXCEPT !.pc = "fetch",
                               !.loc.req = Req("discover_by_genre",
                                               IntToStr(StrToInt(payload).val), page)]
             ELSE [call EXCEPT !.pc = "raised", !.loc.exc = "ValueError"]
        ELSE IF kind = KIND_C
        THEN [call EXCEPT !.pc = "fetch",
                          !.loc.req = Req("discover_by_country", payload, page)]
        ELSE [call EXCEPT !.pc = "done",
                          !.out = Append(@, Msg(<<MSG_UNKNOWN_REQUEST>>, <<>>))]

\* ------------------------------------------------- the browsing handlers
GENRE == <<"g", "e", "n", "r", "e">>
COUNTRY == <<"c", "o", "u", "n", "t", "r", "y">>
\* the three captions of MAIN_KEYBOARD (line 32), each taken as one symbol
CAPTION_SEARCH == <<"[search]">>
CAPTION_GENRE == <<"[genre]">>
CAPTION_COUNTRY == <<"[country]">>
\* COUNTRIES (lines 37-41): the codes
COUNTRIES ==
    <<<<"U", "S">>, <<"G", "B">>, <<"R", "U">>, <<"U", "Z">>, <<"F", "R">>,
      <<"D", "E">>, <<"E", "S">>, <<"I", "T">>, <<"J", "P">>, <<"K", "R">>,
      <<"I", "N">>, <<"C", "N">>, <<"C", "A">>>>
\* dict order of the genre listing
GenreOrder == <<28, 12>>

\* rows of `width` buttons (lines 311-316, 321-326)
Rows(buttons, width) ==
    [r \in 1..((Len(buttons) + width - 1) \div width) |->
        SubSeq(buttons, (r - 1) * width + 1, Min(r * width, Len(buttons)))]

GenreMenu(cache) ==
    LET ids == SelectSeq(GenreOrder, LAMBDA g : g \in DOMAIN cache)
    IN  Rows([i \in 1..Len(ids) |->
                Button(cache[ids[i]],
                       GENRE \o <<":">> \o IntToStr(ids[i]) \o <<":", "1">>)], 3)

CountryMenu ==
    Rows([i \in 1..Len(COUNTRIES) |->
            Button(COUNTRIES[i], COUNTRY \o <<":">> \o COUNTRIES[i] \o <<":", "1">>)], 2)

Send(slot, msg) == [slot EXCEPT !.out = Append(@, msg)]
Finish(slot, msg) == [slot EXCEPT !.pc = "done", !.out = Append(@, msg)]
Fail(slot, exc) == [slot EXCEPT !.pc = "raised", !.loc.exc = exc]

\* The code after `await tmdb_genres()` at each call site, with the mapping the
\* call returned.
AfterGenres(slot, cache) ==
    IF slot.loc.site = "nav"
    THEN \* on_page_nav, lines 384-394
         show_list_with_pagination(slot, slot.loc.kind, slot.loc.page, slot.loc.payload,
             TitleLine("genre", IF slot.loc.gid \in DOMAIN cache
                                THEN cache[slot.loc.gid]
                                ELSE IntToStr(slot.loc.gid)))
    ELSE IF slot.loc.site = "genre1"
    THEN \* on_genre, line 360: [gid], then the title is shown
         IF slot.loc.gid \in DOMAIN cache
         THEN [slot EXCEPT !.pc = "genre_edit",
                           !.loc.title_line = TitleLine("genre", cache[slot.loc.gid])]
         ELSE Fail(slot, "KeyError")
    ELSE IF slot.loc.site = "genre2"
    THEN \* on_genre, line 361
         IF slot.loc.gid \in DOMAIN cache
         THEN show_list_with_pagination(slot, KIND_G, slot.loc.page,
                  IntToStr(slot.loc.gid), TitleLine("genre", cache[slot.loc.gid]))
         ELSE Fail(slot, "KeyError")
    ELSE IF slot.loc.site = "start"
    THEN \* start, lines 295-298
         Finish(slot, Msg(<<MSG_GREETING>>, <<>>))
    ELSE \* text_router, lines 311-318
         Finish(slot, Msg(<<MSG_PICK_GENRE>>, GenreMenu(cache)))

\* tmdb_genres, lines 46-52, called at `site`: a warm cache is returned at
\* once; else the request for the listing is sent and awaited.
tmdb_genres(slot, site) ==
    IF CacheWarm(genres_cache)
    THEN AfterGenres([slot EXCEPT !.loc.site = site], genres_cache)
    ELSE [slot EXCEPT !.pc = "genres", !.loc.site = site,
                      !.loc.req = Req("genre_list", <<>>, 0)]

\* tmdb_genres, lines 53-57: the answer arrives and what it lists replaces the
\* cache, which is returned (an answer with no "genres" in it, or with none
\* listed, gives the empty mapping); or the request fails and httpx raises.
GenresResp(p, env) ==
    /\ h[p].pc = "genres"
    /\ \/ \E listing \in env.listings :
             /\ genres_cache' = listing
             /\ h' = [h EXCEPT ![p] = AfterGenres(h[p], listing)]
       \/ /\ h' = [h EXCEPT ![p] = Fail(h[p], "httpx.TransportError")]
          /\ UNCHANGED genres_cache
    /\ UNCHANGED <<favorites, dblock, cx>>

\* on_page_nav, lines 371-394, up to its first await that can take time
on_page_nav(slot) ==
    LET r == parse_page_cb(slot.data)
        args == [slot EXCEPT !.loc.kind = r.kind, !.loc.page = r.page,
                             !.loc.payload = r.payload]
    IN  IF ~r.ok THEN Fail(slot, "ValueError")
        ELSE IF r.kind = KIND_S
        THEN show_list_with_pagination(args, r.kind, r.page, r.payload,
                                       TitleLine("search", r.payload))
        ELSE IF r.kind = KIND_G
        THEN IF StrToInt(r.payload).ok
             THEN tmdb_genres([args EXCEPT !.loc.gid = StrToInt(r.payload).val], "nav")
             ELSE show_list_with_pagination(args, r.kind, r.page, r.payload,
                                            TitleLine("genre", r.payload))
        ELSE IF r.kind = KIND_C
        THEN show_list_with_pagination(args, r.kind, r.page, r.payload,
                                       TitleLine("country", r.payload))
        ELSE Finish(args, Msg(<<MSG_UNKNOWN_PAGE_KIND>>, <<>>))

OnPageNav(p, env) ==
    /\ SlotFree(p)
    /\ \E u \in env.users, d \in env.tokens :
          h' = [h EXCEPT ![p] =
                  on_page_nav([IdleSlot EXCEPT !.handler = "on_page_nav", !.user = u,
                                               !.data = d])]
    /\ UNCHANGED <<favorites, dblock, genres_cache, cx>>

\* on_genre, lines 355-360
on_genre(slot) ==
    LET f == Split(slot.data, 2)
    IN  IF Len(f) # 3 \/ ~StrToInt(f[2]).ok \/ ~StrToInt(f[3]).ok
        THEN Fail(slot, "ValueError")
        ELSE tmdb_genres([slot EXCEPT !.loc.gid = StrToInt(f[2]).val,
                                      !.loc.page = StrToInt(f[3]).val], "genre1")

OnGenre(p, env) ==
    /\ SlotFree(p)
    /\ \E u \in env.users, d \in env.genre_data :
          h' = [h EXCEPT ![p] =
                  on_genre([IdleSlot EXCEPT !.handler = "on_genre", !.user = u,
                                            !.data = d])]
    /\ UNCHANGED <<favorites, dblock, genres_cache, cx>>

\* on_genre, lines 360-361: the title is shown, then the second tmdb_genres()
GenreEdited(p) ==
    /\ h[p].pc = "genre_edit"
    /\ h' = [h EXCEPT ![p] =
               tmdb_genres(Send(h[p], Msg(<<MSG_TITLE, h[p].loc.title_line>>, <<>>)),
                           "genre2")]
    /\ UNCHANGED <<favorites, dblock, genres_cache, cx>>

\* on_country, lines 363-369
on_country(slot) ==
    LET f == Split(slot.data, 2)
    IN  IF Len(f) # 3 \/ ~StrToInt(f[3]).ok
        THEN Fail(slot, "ValueError")
        ELSE show_list_with_pagination(
                 Send(slot, Msg(<<MSG_TITLE, TitleLine("country", f[2])>>, <<>>)),
                 KIND_C, StrToInt(f[3]).val, f[2], TitleLine("country", f[2]))

OnCountry(p, env) ==
    /\ SlotFree(p)
    /\ \E u \in env.users, d \in env.country_data :
          h' = [h EXCEPT ![p] =
                  on_country([IdleSlot EXCEPT !.handler = "on_country", !.user = u,
                                              !.data = d])]
    /\ UNCHANGED <<favorites, dblock, genres_cache, cx>>

\* start, line 294
Start(p, env) ==
    /\ SlotFree(p)
    /\ \E u \in env.users :
          h' = [h EXCEPT ![p] =
                  tmdb_genres([IdleSlot EXCEPT !.handler = "start", !.user = u], "start")]
    /\ UNCHANGED <<favorites, dblock, genres_cache, cx>>

\* text_router, lines 300-332
text_router(slot) ==
    LET text == Strip(slot.data)
    IN  IF text = CAPTION_SEARCH
        THEN Finish(slot, Msg(<<MSG_ENTER_TITLE>>, <<>>))
        ELSE IF text = CAPTION_GENRE
        THEN tmdb_genres(slot, "menu")
        ELSE IF text = CAPTION_COUNTRY
        THEN Finish(slot, Msg(<<MSG_PICK_COUNTRY>>, CountryMenu))
        ELSE [Send(slot, Msg(<<MSG_SEARCHING>>, <<>>))
                 EXCEPT !.pc = "fetch", !.loc.kind = KIND_S, !.loc.page = 1,
                        !.loc.payload = text, !.loc.req = Req("search", text, 1)]

TextRouter(p, env) ==
    /\ SlotFree(p)
    /\ \E u \in env.users, t \in env.texts :
          h' = [h EXCEPT ![p] =
                  text_router([IdleSlot EXCEPT !.handler = "text_router", !.user = u,
                                               !.data = t])]
    /\ UNCHANGED <<favorites, dblock, genres_cache, cx>>

\* (faulty variant) the page shown is a "current page" the handlers share: the
\* page of the other press, when one is being handled
FetchResp_TrackedPage(p, env) ==
    /\ h[p].pc = "fetch"
    /\ LET others == {q \in DOMAIN h \ {p} : h[q].handler = "on_page_nav"}
           current == IF others = {} THEN h[p].loc.page
                      ELSE h[CHOOSE q \in others : TRUE].loc.page
       IN  \E d \in env.pages :
              h' = [h EXCEPT ![p] =
                      Finish([h[p] EXCEPT !.loc.data = d],
                             IF h[p].handler = "text_router"
                             THEN RenderFirstPage(h[p].loc.payload, d)
                             ELSE RenderPage(h[p].loc.kind, current, h[p].loc.payload,
                                             h[p].loc.title_line, d))]
    /\ UNCHANGED <<favorites, dblock, genres_cache, cx>>

\* The catalog answers the request of lines 134-138 or 332: a page, which is
\* rendered and shown (lines 143-167, 333-347), or the request fails (timeout,
\* transport) and httpx raises, which nothing catches.
FetchResp(p, env) ==
    /\ h[p].pc = "fetch"
    /\ \/ \E d \in env.pages :
             h' = [h EXCEPT ![p] =
                     Finish([h[p] EXCEPT !.loc.data = d],
                            IF h[p].handler = "text_router"
                            THEN RenderFirstPage(h[p].loc.payload, d)
                            ELSE RenderPage(h[p].loc.kind, h[p].loc.page,
                                            h[p].loc.payload, h[p].loc.title_line, d))]
       \/ h' = [h EXCEPT ![p] = Fail(h[p], "httpx.TransportError")]
    /\ UNCHANGED <<favorites, dblock, genres_cache, cx>>

\* main, lines 460-468: the callback patterns, tried in this order with
\* re.match; ^fav_list$ takes the whole string, the others a prefix.
WATCH == <<"w", "a", "t", "c", "h">>
TRAILER == <<"t", "r", "a", "i", "l", "e", "r">>
FAV_LIST == <<"f", "a", "v", "_", "l", "i", "s", "t">>
StartsWith(s, pre) == Len(s) >= Len(pre) /\ SubSeq(s, 1, Len(pre)) = pre
HandlerFor(data) ==
    IF StartsWith(data, DET \o <<":">>) THEN "on_details"
    ELSE IF StartsWith(data, GENRE \o <<":">>) THEN "on_genre"
    ELSE IF StartsWith(data, COUNTRY \o <<":">>) THEN "on_country"
    ELSE IF StartsWith(data, PG \o <<":">>) THEN "on_page_nav"
    ELSE IF StartsWith(data, WATCH \o <<":">>) THEN "on_watch"
    ELSE IF StartsWith(data, TRAILER \o <<":">>) THEN "on_trailer"
    ELSE IF StartsWith(data, FAV_ADD \o <<":">>) THEN "on_fav_add"
    ELSE IF data = FAV_LIST THEN "on_fav_list"
    ELSE IF StartsWith(data, FAV_DEL \o <<":">>) THEN "on_fav_del"
    ELSE "none"

\* A callback query whose data no pattern matches: no handler is registered
\* for it (there is no catch-all after line 470), so the library runs none;
\* the update is through with nothing sent and nothing touched.
CallbackUnmatched(p, env) ==
    /\ SlotFree(p)
    /\ \E u \in env.users, d \in env.callbacks :
          /\ HandlerFor(d) = "none"
          /\ h' = [h EXCEPT ![p] = [IdleSlot EXCEPT !.user = u, !.data = d,
                                                   !.pc = "done"]]
    /\ UNCHANGED <<favorites, dblock, genres_cache, cx>>

\* ------------------------------------------- what reaches the browsing handlers
\* a page of the catalog with n results
Entries(n) == [i \in 1..n |-> [id |-> 100 + i]]
CatalogPage(n, t) == [results |-> Entries(n), total_pages |-> t]

RawNav(kind, page, payload) ==
    PG \o <<":">> \o kind \o <<":">> \o page \o <<":">> \o payload
Long(n) == Pad("a", n - 1) \o <<"b">>

\* one user pressing buttons and typing; any answer of the catalog
NavEnv ==
    [users |-> {1},
     tokens |->
        {RawNav(k, pg, y) :
            k \in Kinds \cup {<<"z">>},
            pg \in {<<"-", "1">>, <<"0">>, <<"1">>, <<"2">>, <<"5">>, <<"x">>},
            y \in {<<"2", "8">>, <<"9", "9">>, <<"a", "b">>, <<"a", ":", "b">>,
                   Long(CB_PAYLOAD_MAX), Long(CB_PAYLOAD_MAX + 1)}}
          \cup {PG \o <<":">>, PG \o <<":", "s">>, PG \o <<":", "s", ":", "1">>},
     genre_data |-> {GENRE \o <<":">> \o g \o <<":", "1">> :
                        g \in {<<"2", "8">>, <<"9", "9">>, <<"x">>}},
     country_data |-> {COUNTRY \o <<":">> \o c \o <<":">> \o pg :
                          c \in {<<"U", "S">>, Long(CB_PAYLOAD_MAX + 1)},
                          pg \in {<<"1">>, <<"2">>}},
     texts |-> {CAPTION_SEARCH, CAPTION_GENRE, CAPTION_COUNTRY, <<"a", "b">>,
                <<" ", "a", "b">>, <<" ">> \o CAPTION_COUNTRY, <<"a", ":", "b">>, Long(CB_PAYLOAD_MAX),
                Long(CB_PAYLOAD_MAX + 1)},
     pages |-> {CatalogPage(n, t) : n \in {0, 1, 3, 5, 10, 11, 19, 20},
                                    t \in {0, 1, 2, 5}},
     listings |-> {GenreListing, EmptyCache},
     callbacks |-> {<<"x", "y", "z", ":", "1">>, <<"p", "g">>, <<"p", "g", "x", ":", "1">>,
                    DET, FAV_LIST \o <<":", "1">>, FAV_LIST \o <<"2">>,
                    FAV_LIST, PG \o <<":", "s", ":", "1", ":", "a">>}]

\* two users at once, few inputs
TwoEnv ==
    [users |-> {1},
     tokens |-> {RawNav(KIND_G, <<"2">>, <<"2", "8">>), RawNav(KIND_S, <<"1">>, <<"a", "b">>),
                 RawNav(KIND_S, <<"2">>, <<"a", "b">>)},
     genre_data |-> {GENRE \o <<":", "2", "8", ":", "1">>},
     country_data |-> {COUNTRY \o <<":", "U", "S", ":", "1">>},
     texts |-> {CAPTION_GENRE, <<"a", "b">>},
     pages |-> {CatalogPage(0, 0), CatalogPage(FULL_PAGE, 5)},
     listings |-> {GenreListing, EmptyCache}]

\* --------------------------------------------------- codec, called directly
SeqsUpTo(S, n) == UNION {[1..k -> S] : k \in 0..n}

PayloadChars == {"a", ":", "1", "-"}
\* payloads around the truncation limit; the last character differs from the
\* padding, so that cutting one character too many or too few shows
LongPayloads ==
    {Pad("a", CB_PAYLOAD_MAX + d) \o <<c>> : d \in {-2, -1, 0, 1}, c \in {"b", ":"}}
Payloads == SeqsUpTo(PayloadChars, MaxLen) \cup LongPayloads
Pages == (0 - 1)..MaxPage

\* raw callback strings: "pg", then up to four more ":"-joined fields
KindFields == {KIND_S, KIND_G, <<"z">>, <<>>}
PageFields == {<<"0">>, <<"1">>, <<"-", "1">>, <<"1", "2">>, <<"x">>, <<>>,
               <<" ", "2">>, <<"1", "_", "0">>, <<"1", "x">>}
TailFields == {<<>>, <<"a">>, <<"2", "8">>}
RawTokens ==
    {PG} \cup {PG \o <<":">> \o k : k \in KindFields}
         \cup {PG \o <<":">> \o k \o <<":">> \o p : k \in KindFields, p \in PageFields}
         \cup {PG \o <<":">> \o k \o <<":">> \o p \o <<":">> \o y :
                  k \in KindFields, p \in PageFields, y \in TailFields}
         \cup {PG \o <<":">> \o k \o <<":">> \o p \o <<":">> \o y \o <<":">> \o e :
                  k \in {KIND_S}, p \in PageFields, y \in TailFields, e \in TailFields}

CxIdle == [stage |-> "idle", kind |-> <<>>, page |-> 0, payload |-> <<>>,
           token |-> <<>>, out |-> ParseFail, again |-> <<>>]

HandlersIdle ==
    /\ favorites = EmptyBag
    /\ dblock = 0
    /\ genres_cache = EmptyCache
    /\ h = [p \in Procs |-> IdleSlot]

\* a caller holds (kind, page, payload), or an inbound callback string
InitCodec ==
    /\ HandlersIdle
    /\ \/ \E k \in Kinds, pg \in Pages, y \in Payloads :
             cx = [CxIdle EXCEPT !.stage = "args", !.kind = k, !.page = pg,
                                 !.payload = y]
       \/ \E t \in RawTokens : cx = [CxIdle EXCEPT !.stage = "raw", !.token = t]

CodecEncode ==
    /\ cx.stage = "args"
    /\ cx' = [cx EXCEPT !.stage = "token",
                        !.token = page_nav_cb(cx.kind, cx.page, cx.payload)]
    /\ UNCHANGED <<favorites, dblock, genres_cache, h>>

CodecDecode ==
    /\ cx.stage \in {"token", "raw"}
    /\ cx' = [cx EXCEPT !.stage = IF cx.stage = "token" THEN "decoded" ELSE "rawdecoded",
                        !.out = parse_page_cb(cx.token)]
    /\ UNCHANGED <<favorites, dblock, genres_cache, h>>

\* the decoded triple is encoded again
CodecReencode ==
    /\ cx.stage = "decoded"
    /\ cx.out.ok
    /\ cx' = [cx EXCEPT !.stage = "reencoded",
                        !.again = page_nav_cb(cx.out.kind, cx.out.page, cx.out.payload)]
    /\ UNCHANGED <<favorites, dblock, genres_cache, h>>

NextCodec == CodecEncode \/ CodecDecode \/ CodecReencode

SpecCodec == InitCodec /\ [][NextCodec]_vars

\* C3: for kind in {s, g, c}, page >= 1 and a payload of at most 40 characters
\* without the delimiter, decoding the encoded token gives back exactly
\* (kind, page, payload).
C3_Precondition ==
    /\ cx.kind \in Kinds
    /\ cx.page >= 1
    /\ Len(cx.payload) <= CB_PAYLOAD_MAX
    /\ \A i \in 1..Len(cx.payload) : cx.payload[i] # ":"

C3_RoundTrip ==
    (cx.stage = "decoded" /\ C3_Precondition)
        => cx.out = [ok |-> TRUE, kind |-> cx.kind, page |-> cx.page,
                     payload |-> cx.payload]

C3_Witness ==
    /\ cx.stage = "decoded"
    /\ C3_Precondition
    /\ Len(cx.payload) = CB_PAYLOAD_MAX
    /\ cx.page >= 10
    /\ cx.out.ok

\* C5: decode reports MalformedToken for every token with fewer delimited
\* fields than expected and for every token whose page field is not a positive
\* integer; a triple is returned only with page >= 1.
NumFields(t) == Len(Split(t, Len(t)))

C5_DecodeRejectsNonPositivePage ==
    cx.stage \in {"decoded", "rawdecoded"}
        => /\ NumFields(cx.token) < 4 => ~cx.out.ok
           /\ cx.out.ok => cx.out.page >= 1

\* ------------------------------------------ the favorites handlers at work
Init ==
    /\ HandlersIdle
    /\ cx = CxIdle

Next ==
    \E p \in Procs :
        \/ OnFavAdd(p)
        \/ FavAddInsert(p)
        \/ FavAddCommit(p)
        \/ OnFavDel(p)
        \/ FavDelCommit(p)
        \/ OnFavList(p)
        \/ TaskEnds(p)

Spec == Init /\ [][Next]_vars

\* Two presses of the same "add to favorites" button by one user are being
\* handled at once (both handlers have their details and call fav_add); when
\* both handlers are through, the user asks for /favorites.
Lister == 3

\* what the other users may have stored before
StoredByOthers(u) ==
    {SetToBag(S) :
        S \in {S \in SUBSET {Row(o, m, e.title, e.year) :
                                 o \in Users \ {u}, m \in Movies,
                                 e \in Catalog(41) \cup Catalog(42)} :
                 /\ \A r \in S : [title |-> r.title, year |-> r.year] \in Catalog(r.movie_id)
                 /\ \A r1, r2 \in S :
                       (r1.user_id = r2.user_id /\ r1.movie_id = r2.movie_id) => r1 = r2}}

InitRace ==
    /\ dblock = 0
    /\ genres_cache = EmptyCache
    /\ cx = CxIdle
    /\ \E u \in Users, m \in Movies : \E e \in [Procs -> Catalog(m)] :
        /\ favorites \in StoredByOthers(u)
        /\ h = [p \in Procs \cup {Lister} |->
                 IF p = Lister
                 THEN [IdleSlot EXCEPT !.handler = "on_fav_list", !.user = u,
                                       !.pc = "select"]
                 ELSE [IdleSlot EXCEPT !.handler = "on_fav_add", !.user = u,
                                       !.data = FAV_ADD \o <<":">> \o IntToStr(m),
                                       !.pc = "insert", !.loc.movie_id = m,
                                       !.loc.title = e[p].title,
                                       !.loc.year = e[p].year]]

ListAfter ==
    /\ \A p \in Procs : h[p].pc \in {"done", "raised"}
    /\ h[Lister].pc = "select"
    /\ send_favorites(Lister, h[Lister].user)

NextRace ==
    \/ \E p \in Procs :
          \/ FavAddInsert(p)
          \/ FavAddCommit(p)
    \/ ListAfter

SpecRace == InitRace /\ [][NextRace]_vars

\* fav_add was called by the handler in slot p and has returned
AddReturned(p) ==
    /\ h[p].handler = "on_fav_add"
    /\ h[p].pc = "done"
    /\ h[p].out[1].text[1] \in {MSG_FAV_ADDED, MSG_FAV_ALREADY}

\* both calls have returned: one True, one False, one row for the user
C1_BothReturnedOneInserted ==
    (AddReturned(1) /\ AddReturned(2))
        => /\ {h[1].loc.ok, h[2].loc.ok} = {TRUE, FALSE}
           /\ h[Lister].pc = "select"
                 => UserRowCount(favorites, h[Lister].user) = 1

\* neither call raises
C1_AddNeverRaises ==
    \A p \in Procs : h[p].pc # "raised"

\* the only rows the user ever has are for the movie the two calls are about
C1_RowsAreThePair ==
    \A p \in Procs : \A r \in UserRows(favorites, h[Lister].user) :
        h[p].pc \in {"insert", "commit"}
            => (h[p].user = h[Lister].user /\ r.movie_id = h[p].loc.movie_id)

\* the list that follows has the user's one row: the movie exactly once
C1_ListAfterStep ==
    (h[Lister].pc = "select" /\ h'[Lister].pc = "done")
        => /\ AddReturned(1) /\ AddReturned(2)
           /\ \E r \in UserRows(favorites, h[Lister].user) :
                 h'[Lister].loc.rows = <<<<r.movie_id, r.title>>>>

\* C1: when two fav_add calls for the same (user, movie) run concurrently, in
\* every interleaving exactly one returns True and the other False, neither
\* raises, and a list of the user's favorites taken afterwards contains the
\* movie exactly once.
C1_ConcurrentAdd ==
    /\ [](C1_BothReturnedOneInserted /\ C1_AddNeverRaises /\ C1_RowsAreThePair)
    /\ [][C1_ListAfterStep]_vars

\* both calls returned, the second inserted, and the list that followed has one row
C1_Witness ==
    /\ AddReturned(1) /\ AddReturned(2)
    /\ h[2].loc.ok /\ ~h[1].loc.ok
    /\ h[Lister].pc = "done"
    /\ Len(h[Lister].loc.rows) = 1
    /\ BagCardinality(favorites) > 1

\* C2: in every reachable state of any interleaving of add, remove and list
\* by any users, the table holds at most one row per (user_id, movie_id).
C2_AtMostOneRowPerKey ==
    \A u \in Users, m \in Movies : CountKey(favorites, u, m) <= 1

\* a duplicate add was refused while every pair is stored
C2_Witness ==
    \E p \in Procs :
        /\ h[p].handler = "on_fav_add" /\ h[p].pc = "done" /\ ~h[p].loc.ok
        /\ h[p].out = <<Msg(<<MSG_FAV_ALREADY>>, <<>>)>>
        /\ BagCardinality(favorites) = Cardinality(Users) * Cardinality(Movies)

\* the commit of fav_remove: the rowcount and the table
C9_RemoveStep ==
    \A p \in Procs :
        (h[p].handler = "on_fav_del" /\ h[p].pc = "commit" /\ h'[p] # h[p])
            => /\ h'[p].pc = "done"
               /\ h'[p].loc.n = h[p].loc.n
               /\ CountKey(favorites, h[p].user, h[p].loc.movie_id) = 0
                     => (h'[p].loc.n = 0 /\ favorites' = favorites)
               /\ CountKey(favorites, h[p].user, h[p].loc.movie_id) > 0
                     => h'[p].loc.n = 1
               /\ CountKey(favorites', h[p].user, h[p].loc.movie_id) = 0

C9_RemoveNeverRaises ==
    \A p \in Procs : h[p].handler = "on_fav_del" => h[p].pc # "raised"

\* C9: a remove of a pair that is not stored returns 0, does not raise and
\* leaves the table unchanged; a remove of a stored pair returns 1 and leaves
\* the pair absent, so a second remove of it returns 0.
C9_RemoveIdempotent ==
    /\ []C9_RemoveNeverRaises
    /\ [][C9_RemoveStep]_vars

\* one slot removed a stored pair (1); the other removed a pair that is not
\* stored (0) while other pairs are
C9_Witness ==
    /\ h[1].handler = "on_fav_del" /\ h[1].pc = "done" /\ h[1].loc.n = 1
    /\ h[2].handler = "on_fav_del" /\ h[2].pc = "done" /\ h[2].loc.n = 0
    /\ h[2].out = <<Msg(<<MSG_FAV_NOT_FOUND>>, <<>>)>>
    /\ favorites # EmptyBag

\* ------------------------------------------- the browsing handlers at work
One == {1}

InitNav ==
    /\ favorites = EmptyBag
    /\ dblock = 0
    /\ genres_cache \in {EmptyCache, GenreListing}
    /\ h = [p \in One |-> IdleSlot]
    /\ cx = CxIdle

NextNav ==
    \E p \in One :
        \/ OnPageNav(p, NavEnv)
        \/ OnGenre(p, NavEnv)
        \/ OnCountry(p, NavEnv)
        \/ Start(p, NavEnv)
        \/ TextRouter(p, NavEnv)
        \/ GenresResp(p, NavEnv)
        \/ GenreEdited(p)
        \/ FetchResp(p, NavEnv)
        \/ CallbackUnmatched(p, NavEnv)
        \/ TaskEnds(p)

SpecNav == InitNav /\ [][NextNav]_vars

\* a handler that went through show_list_with_pagination and showed a page
Rendered(p) ==
    /\ h[p].handler \in {"on_page_nav", "on_genre", "on_country"}
    /\ h[p].pc = "done"
    /\ h[p].loc.data.results # <<>>

LastMsg(p) == h[p].out[Len(h[p].out)]

\* the buttons of a message with this label
ButtonsOf(msg, label) ==
    {<<r, c>> \in (1..Len(msg.buttons)) \X (1..2) :
        c <= Len(msg.buttons[r]) /\ msg.buttons[r][c].label = label}
ButtonData(msg, rc) == msg.buttons[rc[1]][rc[2]].data

\* C4: for every identifier with the navigation prefix that is malformed (wrong
\* number of fields, non-numeric page, or a genre token whose payload is no
\* integer) on_page_nav does not end with an unhandled exception and sends the
\* user an "unrecognized request" message.
MalformedNav(d) ==
    \/ Len(Split(d, 3)) # 4
    \/ ~StrToInt(Split(d, 3)[3]).ok
    \/ Split(d, 3)[2] = KIND_G /\ ~StrToInt(Split(d, 3)[4]).ok

C4_MalformedTokenAnswered ==
    \A p \in DOMAIN h :
        (h[p].handler = "on_page_nav" /\ MalformedNav(h[p].data))
            => /\ h[p].pc # "raised"
               /\ h[p].pc = "done"
                     => LastMsg(p).text[1] \in {MSG_UNKNOWN_REQUEST, MSG_UNKNOWN_PAGE_KIND}

\* C6: on every non-empty page the renderer shows, "previous" is there exactly
\* when page > 1 and "next" exactly when page < totalPages or the page has 20
\* entries, and never twice.  totalPages is the count the page shows,
\* max(1, total_pages); for page >= 1 that is the same condition as with the
\* remote's own number, which the second formula states.
C6_NavButtons ==
    \A p \in DOMAIN h :
        Rendered(p)
            => /\ Cardinality(ButtonsOf(LastMsg(p), "prev")) =
                     (IF h[p].loc.page > 1 THEN 1 ELSE 0)
               /\ Cardinality(ButtonsOf(LastMsg(p), "next")) =
                     (IF \/ h[p].loc.page < LastMsg(p).text[4]
                         \/ Len(h[p].loc.data.results) = FULL_PAGE
                      THEN 1 ELSE 0)
               /\ h[p].loc.page >= 1
                     => (ButtonsOf(LastMsg(p), "next") # {}
                            <=> \/ h[p].loc.page < h[p].loc.data.total_pages
                                \/ Len(h[p].loc.data.results) = FULL_PAGE)

\* 20 entries with totalPages = 1: "next" all the same
C6_Witness ==
    \E p \in DOMAIN h :
        /\ Rendered(p)
        /\ h[p].loc.page = 1
        /\ h[p].loc.data.total_pages = 1
        /\ Len(h[p].loc.data.results) = FULL_PAGE
        /\ Cardinality(ButtonsOf(LastMsg(p), "next")) = 1
        /\ ButtonsOf(LastMsg(p), "prev") = {}

\* a handler that showed a page of results, the first page of a text search
\* (text_router builds its own "next" button) included
Shown(p) ==
    /\ h[p].handler \in {"on_page_nav", "on_genre", "on_country", "text_router"}
    /\ h[p].pc = "done"
    /\ h[p].loc.data.results # <<>>

\* C7 as stated: every navigation button of a page (kind, page, payload)
\* decodes to (kind, page + 1, payload) for "next" and (kind, page - 1,
\* payload) for "previous".
Decoded(kind, page, payload) ==
    [ok |-> TRUE, kind |-> kind, page |-> page, payload |-> payload]

C7_NavTokensDecodeToPayload ==
    \A p \in DOMAIN h :
        Shown(p)
            => /\ \A b \in ButtonsOf(LastMsg(p), "next") :
                     parse_page_cb(ButtonData(LastMsg(p), b)) =
                        Decoded(h[p].loc.kind, h[p].loc.page + 1, h[p].loc.payload)
               /\ \A b \in ButtonsOf(LastMsg(p), "prev") :
                     parse_page_cb(ButtonData(LastMsg(p), b)) =
                        Decoded(h[p].loc.kind, h[p].loc.page - 1, h[p].loc.payload)

\* C7 amended: every navigation button decodes to (kind, page + 1, payload[:40])
\* for "next" and (kind, page - 1, payload[:40]) for "previous": the payload as
\* it is when it has at most 40 characters.
C7_NavTokensDecodeToCutPayload ==
    \A p \in DOMAIN h :
        Shown(p)
            => /\ \A b \in ButtonsOf(LastMsg(p), "next") :
                     parse_page_cb(ButtonData(LastMsg(p), b)) =
                        Decoded(h[p].loc.kind, h[p].loc.page + 1,
                                Prefix(h[p].loc.payload, CB_PAYLOAD_MAX))
               /\ \A b \in ButtonsOf(LastMsg(p), "prev") :
                     parse_page_cb(ButtonData(LastMsg(p), b)) =
                        Decoded(h[p].loc.kind, h[p].loc.page - 1,
                                Prefix(h[p].loc.payload, CB_PAYLOAD_MAX))

\* genre browse for genre id 28, page 1, 20 entries, totalPages = 5
C7_Witness ==
    \E p \in DOMAIN h :
        /\ Shown(p)
        /\ h[p].handler = "on_genre"
        /\ h[p].loc.gid = 28 /\ h[p].loc.page = 1
        /\ Len(h[p].loc.data.results) = FULL_PAGE
        /\ h[p].loc.data.total_pages = 5
        /\ \E b \in ButtonsOf(LastMsg(p), "next") :
              parse_page_cb(ButtonData(LastMsg(p), b)) = Decoded(KIND_G, 2, <<"2", "8">>)

\* C8: every handled interaction gets a reply, also when a catalog call times
\* out or fails at transport level: the handler catches the failure and sends
\* a failure message; it does not end with the exception unhandled.
C8_RemoteFailureAnswered ==
    \A p \in DOMAIN h :
        ~(h[p].pc = "raised" /\ h[p].loc.exc = "httpx.TransportError")

\* ------------------------------------- two browsing handlers at the same time
InitTwo ==
    /\ favorites = EmptyBag
    /\ dblock = 0
    /\ genres_cache = EmptyCache
    /\ h = [p \in Procs |-> IdleSlot]
    /\ cx = CxIdle

NextTwo ==
    \E p \in Procs :
        \/ OnPageNav(p, TwoEnv)
        \/ OnGenre(p, TwoEnv)
        \/ Start(p, TwoEnv)
        \/ TextRouter(p, TwoEnv)
        \/ GenresResp(p, TwoEnv)
        \/ GenreEdited(p)
        \/ FetchResp(p, TwoEnv)
        \/ TaskEnds(p)

SpecTwo == InitTwo /\ [][NextTwo]_vars

\* the step of slot p is a call of tmdb_genres
CallsGenres(p) ==
    /\ h[p].pc \in {"idle", "genre_edit"}
    /\ h'[p] # h[p]
    /\ h'[p].loc.site # ""

\* a call of tmdb_genres by slot q has returned a mapping
GenresReturned(q) ==
    h[q].loc.site # "" /\ h[q].pc \in {"done", "fetch", "genre_edit"}

\* a call of tmdb_genres: the request is sent just when the cache is empty
C10_CallStep ==
    \A p \in Procs :
        CallsGenres(p)
            => IF genres_cache # EmptyCache
               THEN /\ h'[p].pc # "genres"
                    /\ genres_cache' = genres_cache
                    /\ (h'[p].loc.site \in {"nav", "genre1", "genre2"}
                           /\ h'[p].loc.gid \in DOMAIN genres_cache)
                          => h'[p].loc.title_line.arg = genres_cache[h'[p].loc.gid]
                    /\ h'[p].loc.site = "menu"
                          => h'[p].out[Len(h'[p].out)].buttons = GenreMenu(genres_cache)
               ELSE h'[p].pc = "genres" /\ genres_cache' = genres_cache

\* the listing arrives: it becomes the cache and is what the caller gets
C10_PopulationStep ==
    \A p \in Procs :
        (/\ h[p].pc = "genres"
         /\ h'[p] # h[p]
         /\ ~(h'[p].pc = "raised" /\ h'[p].loc.exc = "httpx.TransportError"))
            => /\ genres_cache' \in TwoEnv.listings
               /\ h'[p] = AfterGenres(h[p], genres_cache')

C10_CacheIsAListing == genres_cache \in {EmptyCache} \cup TwoEnv.listings

\* C10: once the cache is non-empty, every later call of tmdb_genres issues no
\* remote request, leaves the cache unchanged and goes on with the cached
\* mapping; a call that finds the cache empty issues the request.  Every
\* population that completes replaces the cache with the listing it received
\* and goes on with it, so the cache is always empty or a listing of the
\* remote, and when two handlers warm an empty cache at the same time each
\* interleaving ends with the listing the later one received: the remote
\* listing, the same data twice.
C10_CachePopulatedWhenEmpty ==
    /\ []C10_CacheIsAListing
    /\ [][C10_CallStep /\ C10_PopulationStep]_vars

\* two warm-ups started with the cache empty; one has populated it and gone
\* on, the request of the other is still out
C10_Witness ==
    \E p, q \in Procs :
        /\ p # q
        /\ h[p].pc = "genres"
        /\ GenresReturned(q) /\ h[q].loc.req.endpoint = "genre_list"
        /\ genres_cache = GenreListing

\* C11: every genre-name lookup of a handler gives the stringified genre id
\* when the cache has no entry for the id, and never fails, in on_genre as in
\* on_page_nav: no handler ends with a KeyError, and the title it goes on with
\* names the genre by the cached name or else by the id.
C11_GenreLookupFallsBack ==
    \A p \in DOMAIN h :
        /\ ~(h[p].pc = "raised" /\ h[p].loc.exc = "KeyError")
        /\ (h[p].handler \in {"on_genre", "on_page_nav"}
              /\ h[p].loc.title_line.tag = "genre"
              /\ StrToInt(h[p].loc.payload).ok
              /\ h[p].loc.gid \notin DOMAIN genres_cache)
             => h[p].loc.title_line.arg = IntToStr(h[p].loc.gid)

\* the step that takes in a callback no pattern matches
C12_UnmatchedStep ==
    \A p \in DOMAIN h :
        (h[p].pc = "idle" /\ h'[p].pc # "idle" /\ HandlerFor(h'[p].data) = "none"
           /\ h'[p].handler \notin {"start", "text_router"})
            => /\ h'[p].pc = "done"
               /\ h'[p].out = <<Msg(<<MSG_UNKNOWN_REQUEST>>, <<>>)>>
               /\ favorites' = favorites
               /\ genres_cache' = genres_cache

\* C12: a button press whose identifier matches none of the known prefixes
\* gets the literal "unrecognized request" reply and has no other effect: no
\* handler crash, favorites store and genre cache unchanged.
C12_UnknownPrefixAnswered == [][C12_UnmatchedStep]_vars

\* what the token that started the navigation handler in slot p encodes
OwnToken(p) == parse_page_cb(h[p].data)

\* the handler works on the page of its own token: its request asks for that
\* page and the reply it shows is headed with it
C13_OwnPage ==
    \A p \in Procs :
        (h[p].handler = "on_page_nav" /\ OwnToken(p).ok)
            => /\ h[p].pc \in {"genres", "fetch", "done"}
                     => /\ h[p].loc.kind = OwnToken(p).kind
                        /\ h[p].loc.page = OwnToken(p).page
                        /\ h[p].loc.payload = OwnToken(p).payload
               /\ h[p].pc = "fetch" => h[p].loc.req.page = OwnToken(p).page
               /\ Rendered(p)
                     => \E d \in TwoEnv.pages :
                           LastMsg(p) = RenderPage(OwnToken(p).kind, OwnToken(p).page,
                                                   OwnToken(p).payload,
                                                   h[p].loc.title_line, d)

\* a step of one handler leaves the other handler as it is
C13_StepsApart ==
    \A p, q \in Procs : (p # q /\ h'[q] # h[q]) => h'[p] = h[p]

\* C13: when two navigation presses of one user are handled at the same time
\* and complete in any order, each reply shows the page encoded in the token
\* that started it; the page and the catalog request of one handler do not
\* depend on the progress of the other.
C13_ConcurrentNav ==
    /\ []C13_OwnPage
    /\ [][C13_StepsApart]_vars

\* two presses of one user in one search, for page 2 and for page 1, both
\* answered
C13_Witness ==
    /\ \A p \in Procs : h[p].handler = "on_page_nav" /\ Rendered(p)
    /\ h[1].user = h[2].user
    /\ h[1].loc.kind = KIND_S /\ h[2].loc.kind = KIND_S
    /\ h[1].loc.payload = h[2].loc.payload
    /\ LastMsg(1).text[3] = 2
    /\ LastMsg(2).text[3] = 1

\* C14: page_nav_cb keeps exactly the first 40 characters of a longer payload
\* (and a shorter one whole); decoding that token and encoding the decoded
\* (kind, page, payload) again gives the identical token; the payload inside
\* an emitted token never has more than 40 characters.
C14_TruncationFixedPoint ==
    /\ cx.stage \in {"token", "decoded", "reencoded"}
          => cx.token = RawNav(cx.kind, IntToStr(cx.page),
                               Prefix(cx.payload, CB_PAYLOAD_MAX))
    /\ cx.stage \in {"decoded", "reencoded"}
          => /\ cx.out.ok
             /\ Len(cx.out.payload) <= CB_PAYLOAD_MAX
             /\ cx.out.payload = SubSeq(cx.payload, 1, Min(Len(cx.payload), CB_PAYLOAD_MAX))
    /\ cx.stage = "reencoded" => cx.again = cx.token

\* a payload of 41 characters went through: 40 are left and the token came
\* back the same
C14_Witness ==
    /\ cx.stage = "reencoded"
    /\ Len(cx.payload) = CB_PAYLOAD_MAX + 1
    /\ Len(cx.out.payload) = CB_PAYLOAD_MAX
    /\ cx.again = cx.token

Captions == {CAPTION_SEARCH, CAPTION_GENRE, CAPTION_COUNTRY}

\* text_router took `text` for a search: page 1 is asked for with `text` as
\* the query, and 3 entries with total_pages = 1 are shown as exactly 3 detail
\* buttons under the header for `text`, page 1 of 1, with no navigation row
SearchedFor(p, text) ==
    /\ h[p].pc \in {"fetch", "done", "raised"}
    /\ h[p].loc.kind = KIND_S /\ h[p].loc.page = 1 /\ h[p].loc.payload = text
    /\ h[p].loc.req = Req("search", text, 1)
    /\ (h[p].pc = "done" /\ h[p].loc.data = CatalogPage(3, 1))
          => LastMsg(p) =
                Msg(<<MSG_RESULTS_FOR, text, 1, 1>>,
                    [i \in 1..3 |->
                        <<Button("details", DET \o <<":">> \o IntToStr(100 + i))>>])

\* C15 as stated: a text message that equals none of the three captions is
\* treated as a search with the full text as payload and page 1; 3 entries
\* with totalPages = 1 give exactly 3 detail buttons, the header for the text
\* with page 1 of 1, and no navigation row.
C15_FreeTextSearchesFullText ==
    \A p \in DOMAIN h :
        (h[p].handler = "text_router" /\ h[p].data \notin Captions)
            => SearchedFor(p, h[p].data)

\* C15 amended: the text is stripped of leading and trailing whitespace first;
\* when the stripped text equals none of the three captions it is treated as
\* a search with the stripped text as payload and page 1, and 3 entries with
\* totalPages = 1 give exactly 3 detail buttons, the header for the stripped
\* text with page 1 of 1, and no navigation row.
C15_FreeTextSearchesStrippedText ==
    \A p \in DOMAIN h :
        (h[p].handler = "text_router" /\ Strip(h[p].data) \notin Captions)
            => SearchedFor(p, Strip(h[p].data))

\* " ab" was searched as "ab": 3 entries, page 1 of 1
C15_Witness ==
    \E p \in DOMAIN h :
        /\ h[p].handler = "text_router" /\ h[p].pc = "done"
        /\ h[p].data = <<" ", "a", "b">>
        /\ h[p].loc.data = CatalogPage(3, 1)
        /\ Len(LastMsg(p).buttons) = 3
        /\ LastMsg(p).text = <<MSG_RESULTS_FOR, <<"a", "b">>, 1, 1>>

\* the INSERT of a handler whose (user, movie) is stored already
C16_DuplicateAddStep ==
    \A p \in Procs :
        (/\ h[p].handler = "on_fav_add" /\ h[p].pc = "insert"
         /\ h'[p] # h[p]
         /\ CountKey(favorites, h[p].user, h[p].loc.movie_id) >= 1)
            => /\ h'[p].pc = "done"
               /\ ~h'[p].loc.ok
               /\ h'[p].out = <<Msg(<<MSG_FAV_ALREADY>>, <<>>)>>
               /\ favorites' = favorites

\* fav_add returns True just when it stored the row
C16_InsertedStep ==
    \A p \in Procs :
        (h[p].handler = "on_fav_add" /\ h[p].pc = "commit" /\ h'[p] # h[p])
            => /\ h'[p].loc.ok
               /\ h'[p].out[1].text[1] = MSG_FAV_ADDED
               /\ CountKey(favorites, h[p].user, h[p].loc.movie_id) = 0
               /\ CountKey(favorites', h[p].user, h[p].loc.movie_id) = 1

\* C16: a duplicate add for a stored (userId, itemId) is a no-op: it returns
\* False (AlreadyExists), distinct from the True of an insert, and leaves every
\* stored record unchanged, title and year of the existing record included,
\* also when the duplicate add supplies different ones.
C16_DuplicateAddNoOp == [][C16_DuplicateAddStep /\ C16_InsertedStep]_vars

\* an add with another title was refused and the stored record kept its own
C16_Witness ==
    \E p \in Procs :
        /\ h[p].handler = "on_fav_add" /\ h[p].pc = "done" /\ ~h[p].loc.ok
        /\ h[p].out = <<Msg(<<MSG_FAV_ALREADY>>, <<>>)>>
        /\ \E r \in RowsWithKey(favorites, h[p].user, h[p].loc.movie_id) :
              r.title # h[p].loc.title /\ r.year # h[p].loc.year

\* the rows of a shown message that hold a detail button, and those that hold
\* navigation buttons
IsEntryRow(row) == Len(row) = 1 /\ row[1].label = "details"
IsNavRow(row) == Len(row) \in {1, 2} /\ \A c \in 1..Len(row) : row[c].label \in {"prev", "next"}

\* C17: for a remote page with n >= 1 entries the button grid has exactly
\* min(n, 10) entry rows, one per result in result order, each with the detail
\* token of that entry's id; then at most one navigation row, which is the
\* last row when it is there.
C17_ButtonGrid ==
    \A p \in DOMAIN h :
        Shown(p)
            => LET rows == LastMsg(p).buttons
                   n == Len(h[p].loc.data.results)
                   k == IF n < KB_MAX THEN n ELSE KB_MAX
               IN  /\ Len(rows) \in {k, k + 1}
                   /\ \A i \in 1..k :
                         rows[i] = <<Button("details",
                                            DET \o <<":">>
                                                \o IntToStr(h[p].loc.data.results[i].id))>>
                   /\ Len(rows) = k + 1 => IsNavRow(rows[k + 1])

\* 11 entries on page 2: ten entry rows, then the navigation row
C17_Witness ==
    \E p \in DOMAIN h :
        /\ Shown(p)
        /\ Len(h[p].loc.data.results) = KB_MAX + 1
        /\ Len(LastMsg(p).buttons) = KB_MAX + 1
        /\ IsEntryRow(LastMsg(p).buttons[KB_MAX])
        /\ IsNavRow(LastMsg(p).buttons[KB_MAX + 1])

\* C18: every navigation token the renderer emits has page >= 1, along any
\* chain of bot-emitted buttons and for any inbound identifier the navigation
\* handler accepts.
C18_EmittedPagesPositive ==
    \A p \in DOMAIN h :
        Shown(p)
            => \A b \in ButtonsOf(LastMsg(p), "prev") \cup ButtonsOf(LastMsg(p), "next") :
                  /\ parse_page_cb(ButtonData(LastMsg(p), b)).ok
                  /\ parse_page_cb(ButtonData(LastMsg(p), b)).page >= 1

\* rows of the table that are not the record keyed (u, m)
RowsBut(table, u, m) ==
    LET keep == {r \in BagToSet(table) : ~(r.user_id = u /\ r.movie_id = m)}
    IN  [r \in keep |-> table[r]]

\* a step of on_fav_add or on_fav_del for (u, i) changes at most the record
\* keyed (u, i)
C19_WriteStep ==
    \A p \in Procs :
        (h[p].handler \in {"on_fav_add", "on_fav_del"} /\ h'[p] # h[p]
           /\ h[p].pc \in {"insert", "commit"})
            => RowsBut(favorites', h[p].user, h[p].loc.movie_id)
                  = RowsBut(favorites, h[p].user, h[p].loc.movie_id)

\* a step that starts a handler, lists, or ends a task writes nothing, but for
\* the lock a starting remove takes
C19_OtherStep ==
    (\A p \in Procs : h'[p] # h[p] => h[p].pc \notin {"insert", "commit"})
        => favorites' = favorites

\* list(u) returns the records of u, each once, by title ascending
C19_ListStep ==
    \A p \in Procs :
        (h[p].pc = "idle" /\ h'[p].handler = "on_fav_list")
            => LET rows == h'[p].loc.rows
                   u == h'[p].user
               IN  /\ Len(rows) = UserRowCount(favorites, u)
                   /\ \A i \in 1..Len(rows) :
                         \E r \in UserRows(favorites, u) :
                            rows[i] = <<r.movie_id, r.title>>
                   /\ \A r \in UserRows(favorites, u) :
                         \E i \in 1..Len(rows) : rows[i] = <<r.movie_id, r.title>>
                   /\ \A i, j \in 1..Len(rows) :
                         i < j => TitleRank(rows[i][2]) <= TitleRank(rows[j][2])

\* C19: favorites are isolated per user: add(u, i, ...) and remove(u, i)
\* change at most the record keyed (u, i) and leave every record of every
\* other user and every other item of u unchanged; list(u) returns only
\* records whose userId is u, ordered by title ascending.
C19_PerUserIsolation == [][C19_WriteStep /\ C19_OtherStep /\ C19_ListStep]_vars

\* one user's record was removed and the other user's list came after: both
\* users still have records, and the list has the lister's two, by title
C19_Witness ==
    \E p, q \in Procs :
        /\ h[q].handler = "on_fav_del" /\ h[q].pc = "done" /\ h[q].loc.n = 1
        /\ h[p].handler = "on_fav_list" /\ h[p].pc = "done"
        /\ h[p].loc.rows = <<<<42, "Alien">>, <<41, "Brazil">>>>
        /\ UserRowCount(favorites, h[p].user) = 2
        /\ \E o \in Users \ {h[p].user} : UserRowCount(favorites, o) = 1

\* ------------------------------------- a browse session: search, then buttons
\* what one user types, and what the catalog answers
SessionEnv ==
    [users |-> {1},
     texts |-> {CAPTION_SEARCH, <<"a", "b">>, <<" ", "a", "b">>, <<"a", ":", "b">>,
                Long(CB_PAYLOAD_MAX), Long(CB_PAYLOAD_MAX + 1)},
     pages |-> {CatalogPage(n, t) : n \in {0, 3, KB_MAX + 1, FULL_PAGE}, t \in {1, 3}}]

\* The user presses a navigation button of the page the bot has shown: the
\* button's callback data comes back and main (line 465) starts on_page_nav.
PressNav(p) ==
    /\ Shown(p)
    /\ \E b \in ButtonsOf(LastMsg(p), "prev") \cup ButtonsOf(LastMsg(p), "next") :
          LET d == ButtonData(LastMsg(p), b)
          IN  /\ HandlerFor(d) = "on_page_nav"
              /\ parse_page_cb(d).ok => parse_page_cb(d).page <= MaxNavPage
              /\ h' = [h EXCEPT ![p] =
                         on_page_nav([IdleSlot EXCEPT !.handler = "on_page_nav",
                                                      !.user = h[p].user, !.data = d])]
    /\ UNCHANGED <<favorites, dblock, genres_cache, cx>>

InitSession ==
    /\ favorites = EmptyBag
    /\ dblock = 0
    /\ genres_cache = EmptyCache
    /\ h = [p \in One |-> IdleSlot]
    /\ cx = CxIdle

NextSession ==
    \E p \in One :
        \/ TextRouter(p, SessionEnv)
        \/ FetchResp(p, SessionEnv)
        \/ PressNav(p)
        \/ TaskEnds(p)

SpecSession == InitSession /\ [][NextSession]_vars

\* the step of slot p is the press of a button of a search page
SearchPress(p) ==
    /\ h[p].pc = "done" /\ h[p].loc.kind = KIND_S
    /\ h'[p].handler = "on_page_nav" /\ h'[p].pc # "done"

\* a press asks the catalog with the query of the page it is on
C20_PressKeepsQueryStep ==
    \A p \in One :
        SearchPress(p)
            => /\ h'[p].pc = "fetch"
               /\ h'[p].loc.req.endpoint = "search"
               /\ h'[p].loc.req.arg = h[p].loc.req.arg

\* C20: for a free-text search of any length, the query sent to the
\* catalog when the user follows "next" of the first page, and again when the
\* user then follows "previous", is the query that was sent for the first
\* page: every press in the session asks with the query of the page it is on.
C20_SessionKeepsQuery == [][C20_PressKeepsQueryStep]_vars

====
